---- MODULE Spec2Model ----
(***************************************************************************)
(* A model of the crawl engine of crawler/app.py: the frontier and worker  *)
(* pool of crawl(), upsert_page / save_fetch_log on the SQLite store, the  *)
(* robots cache and RateLimiter.wait.                                      *)
(***************************************************************************)
EXTENDS Integers, Sequences, FiniteSets, TLC

VARIABLES
  frontier,      \* queue.Queue(): sequence of <<url, depth>>
  unfinished,    \* Queue.unfinished_tasks (put increments, task_done decrements)
  seen,          \* seen = set()
  stop_event,    \* threading.Event()
  fetched,       \* quota counter
  pages,         \* table pages: row id = index
  fetch_log,     \* table fetch_log, in insertion order
  links,         \* table links (committed rows)
  pend,          \* per connection: link rows inserted but not yet committed
  raw,           \* RAW_DIR/{id}.html      (page id -> bytes, NoVal when absent)
  meta,          \* RAW_DIR/{id}.meta.json (page id -> content_hash recorded)
  rp_cache,      \* _rp_cache: host -> TRUE when a ruleset is cached
  robots_gets,   \* robots.txt requests received per host
  http_gets,     \* page GET requests received per url
  last,          \* RateLimiter.last
  now,           \* time.monotonic(), in ticks
  wall,          \* datetime.now(); it advances past every first_seen handed out
  loc,           \* locals of each worker thread
  main_pc,       \* crawl(): "join" while blocked in frontier.join(), then "done"
  rl_lock,       \* RateLimiter.lock holder (0 = free)
  rps,           \* RateLimiter.rps in milli-requests per second
  hist,          \* per host: the successive reservations [t, slot] of wait()
  released,      \* per host: the instants at which wait() returned
  rets,          \* what the completed upsert_page calls returned
  names,         \* RAW_DIR as a directory: file name -> inode (NoVal when absent)
  inodes,        \* content of every inode, as the sequence of its bytes
  wr,            \* the callers of _atomic_write_bytes: position, arguments, file offset
  u_in,          \* argument of the url function under call
  u_out,         \* what the call produced
  cfg,           \* whitelist.yml: seeds, include_patterns, exclude_patterns
  cur            \* the page whose links are being handled, and extract_links' result

vars == <<frontier, unfinished, seen, stop_event, fetched, pages, fetch_log,
          links, pend, raw, meta, rp_cache, robots_gets, http_gets, last, now,
          wall, loc, main_pc, rl_lock, rps, hist, released, rets,
          names, inodes, wr, u_in, u_out, cfg, cur>>

crawlVars == <<frontier, unfinished, seen, stop_event, fetched, pages,
               fetch_log, links, pend, raw, meta, rp_cache, robots_gets,
               http_gets, wall, loc, main_pc>>

crawlVarsButLoc == <<frontier, unfinished, seen, stop_event, fetched, pages,
                     fetch_log, links, pend, raw, meta, rp_cache, robots_gets,
                     http_gets, wall, main_pc>>

limiterVars == <<last, now, rl_lock, rps, hist, released, rets>>

fileVars == <<names, inodes, wr>>

urlVars == <<u_in, u_out>>

linkVars == <<cfg, cur>>

sideVars == <<fileVars, urlVars, linkVars>>

-----------------------------------------------------------------------------
(* Configuration (whitelist.yml) and the modelled web *)

NoVal == 0

\* error column / exception text when there is none
NoErr == "None"

NumWorkers == 2

Workers == 1..NumWorkers

max_pages == 1

max_depth == 2

honor_robots == TRUE

NumUrls == 5

Urls == 1..NumUrls

\* seeds of the configuration: the same page listed twice
Seeds == <<1, 1>>

Hosts == {1, 2}

HostOf(u) == IF u = 5 THEN 2 ELSE 1

\* the <<to_url, anchor>> list extract_links yields for the page at u, in
\* document order (page 1 links to 2 twice, under two anchors)
LinksOf(u) ==
  CASE u = 1 -> << <<2, 21>>, <<3, 31>>, <<4, 41>>, <<2, 22>> >>
    [] u = 2 -> << <<1, 11>>, <<5, 51>> >>
    [] OTHER -> << >>

\* include/exclude patterns of the configuration: url 4 matches an exclude pattern
PolicyExcluded == {4}

\* robots.txt of the hosts: url 3 is disallowed for '*'
RobotsDisallowed == {3}

BodyOf(u) == 10 + u

OldBodyOf(u) == 20 + u

EtagOf(b) == 100 + b

Md5(b) == 1000 + b

\* len(html): the modelled body b is b bytes long
len(b) == b


-----------------------------------------------------------------------------
(* The store *)

PageIds == 1..NumUrls

NewPage(u, d, t) ==
  [url |-> u, first_seen |-> t, last_seen |-> NoVal, last_status |-> NoVal,
   etag |-> NoVal, last_modified |-> NoVal, content_hash |-> NoVal, depth |-> d]

\* SELECT id FROM pages WHERE url=?  (NoVal when there is no row)
PageIdOf(u) ==
  IF \E i \in DOMAIN pages : pages[i].url = u
    THEN CHOOSE i \in DOMAIN pages : pages[i].url = u
    ELSE NoVal

LogRow(pid, t, st, n, err) ==
  [page_id |-> pid, fetched_at |-> t, status |-> st, bytes |-> n, error |-> err]

\* INSERT OR IGNORE under PRIMARY KEY(from_page, to_url)
InsertOrIgnore(rows, r) ==
  IF \E x \in rows : x.from_page = r.from_page /\ x.to_url = r.to_url
    THEN rows
    ELSE rows \cup {r}

RECURSIVE InsertAll(_, _)
InsertAll(rows, new) ==
  IF new = << >> THEN rows
  ELSE InsertAll(InsertOrIgnore(rows, Head(new)), Tail(new))

\* a database left by an earlier run: page 2 fetched with validators, its
\* artifact and its links stored
PriorPages ==
  << [url |-> 2, first_seen |-> 1, last_seen |-> 2, last_status |-> 200,
      etag |-> EtagOf(OldBodyOf(2)), last_modified |-> NoVal,
      content_hash |-> Md5(OldBodyOf(2)), depth |-> 1] >>

PriorLog == << LogRow(1, 2, 200, len(OldBodyOf(2)), NoErr) >>

PriorLinks == { [from_page |-> 1, to_url |-> 1, anchor |-> 11],
                [from_page |-> 1, to_url |-> 5, anchor |-> 51] }

-----------------------------------------------------------------------------
(* crawl(): seeding and worker start *)

allowed_by_patterns(u) == u \notin PolicyExcluded

SeedItems == SelectSeq([i \in 1..Len(Seeds) |-> <<Seeds[i], 0>>],
                       LAMBDA it : allowed_by_patterns(it[1]))

InitLoc ==
  [pc |-> "get", url |-> NoVal, depth |-> 0, page_id |-> NoVal,
   prev_etag |-> NoVal, prev_lm |-> NoVal, status |-> NoVal, ctype |-> FALSE,
   html |-> NoVal,
   links |-> << >>, i |-> 0, e |-> NoErr, t |-> 0, sleep |-> 0]

\* init_db() on an empty data directory, or on the one an earlier run left
InitStore ==
  \E prior \in BOOLEAN :
    /\ pages = IF prior THEN PriorPages ELSE << >>
    /\ fetch_log = IF prior THEN PriorLog ELSE << >>
    /\ links = IF prior THEN PriorLinks ELSE {}
    /\ raw = [p \in PageIds |-> IF prior /\ p = 1 THEN OldBodyOf(2) ELSE NoVal]
    /\ meta = [p \in PageIds |-> IF prior /\ p = 1 THEN Md5(OldBodyOf(2)) ELSE NoVal]
    /\ wall = IF prior THEN 3 ELSE 1

\* process state before any worker has run, for the given frontier content
\* and worker position
InitProcess(items, p) ==
  /\ frontier = items
  /\ unfinished = Len(items)
  /\ seen = {}
  /\ stop_event = FALSE
  /\ fetched = 0
  /\ pend = [w \in Workers |-> << >>]
  /\ rp_cache = [h \in Hosts |-> FALSE]
  /\ robots_gets = [h \in Hosts |-> 0]
  /\ http_gets = [u \in Urls |-> 0]
  /\ loc = [w \in Workers |-> [InitLoc EXCEPT !.pc = p]]
  /\ main_pc = "join"

InitCrawl == InitStore /\ InitProcess(SeedItems, "get")

-----------------------------------------------------------------------------
(* crawl.worker: one action per step of the loop body *)

At(w, p) == loc[w].pc = p

Goto(w, p) == loc' = [loc EXCEPT ![w].pc = p]

\* continue: back to frontier.get.  Of the locals only page_id is read again
\* before it is assigned ('page_id' in locals()), so the others are cleared.
Continue(w) == loc' = [loc EXCEPT ![w] = [InitLoc EXCEPT !.page_id = loc[w].page_id]]

\* the item is marked done twice
task_doneTwice(n) == n - 2

\* frontier.task_done(): unfinished_tasks, n before the call, goes down by one
task_done(n) == n - 1

\* the timeout fires although items are queued
QueueEmptyAlways == TRUE

\* frontier.get(timeout=2) raises queue.Empty only on an empty queue
QueueEmpty == frontier = << >>

Get(w) ==
  /\ At(w, "get")
  /\ ~QueueEmpty
  /\ frontier' = Tail(frontier)
  /\ loc' = [loc EXCEPT ![w].pc = "stop", ![w].url = Head(frontier)[1],
                        ![w].depth = Head(frontier)[2]]
  /\ UNCHANGED <<unfinished, seen, stop_event, fetched, pages, fetch_log, links,
                 pend, raw, meta, rp_cache, robots_gets, http_gets, wall, main_pc>>
  /\ UNCHANGED <<limiterVars, sideVars>>

\* queue.Empty: break, then conn.close()
GetEmpty(w) ==
  /\ At(w, "get")
  /\ QueueEmpty
  /\ Goto(w, "exited")
  /\ UNCHANGED <<frontier, unfinished, seen, stop_event, fetched, pages,
                 fetch_log, links, pend, raw, meta, rp_cache, robots_gets,
                 http_gets, wall, main_pc>>
  /\ UNCHANGED <<limiterVars, sideVars>>

\* the worker never looks at the flag
StopNeverSeen == FALSE

\* the flag a worker reads at the top of an iteration
StopSeen == stop_event

StopCheck(w) ==
  /\ At(w, "stop")
  /\ IF StopSeen
       THEN /\ unfinished' = task_done(unfinished)
            /\ Continue(w)
       ELSE /\ Goto(w, "seen")
            /\ UNCHANGED unfinished
  /\ UNCHANGED <<frontier, seen, stop_event, fetched, pages, fetch_log, links,
                 pend, raw, meta, rp_cache, robots_gets, http_gets, wall, main_pc>>
  /\ UNCHANGED <<limiterVars, sideVars>>

\* if url in seen: task_done(); continue
SeenCheck(w) ==
  /\ At(w, "seen")
  /\ IF loc[w].url \in seen
       THEN /\ unfinished' = task_done(unfinished)
            /\ Continue(w)
       ELSE /\ Goto(w, "add")
            /\ UNCHANGED unfinished
  /\ UNCHANGED <<frontier, seen, stop_event, fetched, pages, fetch_log, links,
                 pend, raw, meta, rp_cache, robots_gets, http_gets, wall, main_pc>>
  /\ UNCHANGED <<limiterVars, sideVars>>

\* seen.add(url)
SeenAdd(w) ==
  /\ At(w, "add")
  /\ seen' = seen \cup {loc[w].url}
  /\ Goto(w, IF honor_robots THEN "robots" ELSE "upsert")
  /\ UNCHANGED <<frontier, unfinished, stop_event, fetched, pages, fetch_log,
                 links, pend, raw, meta, rp_cache, robots_gets, http_gets, wall,
                 main_pc>>
  /\ UNCHANGED <<limiterVars, sideVars>>

\* the ruleset is not consulted
can_fetch_anything(u) == TRUE

\* _rp_cache[host].can_fetch("*", url)
can_fetch(u) == u \notin RobotsDisallowed

\* robots_ok(url): with no cached ruleset, GET https then http; "https" and
\* "http" name the scheme that answered 200 with a body, "fail" is neither
RobotsOk(w) ==
  /\ At(w, "robots")
  /\ LET u == loc[w].url
         h == HostOf(u)
     IN \E outcome \in IF rp_cache[h] THEN {"cached"} ELSE {"https", "http", "fail"} :
          /\ robots_gets' = [robots_gets EXCEPT ![h] =
                               @ + (CASE outcome = "cached" -> 0
                                      [] outcome = "https" -> 1
                                      [] OTHER -> 2)]
          /\ rp_cache' = [rp_cache EXCEPT ![h] = (outcome # "fail")]
          /\ IF outcome = "fail" \/ can_fetch(u)
               THEN /\ Goto(w, "upsert")
                    /\ UNCHANGED unfinished
               ELSE /\ unfinished' = task_done(unfinished)
                    /\ Continue(w)
  /\ UNCHANGED <<frontier, seen, stop_event, fetched, pages, fetch_log, links,
                 pend, raw, meta, http_gets, wall, main_pc>>
  /\ UNCHANGED <<limiterVars, sideVars>>

\* the early return on an existing row is missing
RowNeverFound(id) == FALSE

\* if row: return row[0], row[1], row[2]
RowFound(id) == id # NoVal

\* upsert_page: SELECT id, etag, last_modified FROM pages WHERE url=?
UpsertSelect(w) ==
  /\ At(w, "upsert")
  /\ LET id == PageIdOf(loc[w].url)
     IN IF RowFound(id)
          THEN loc' = [loc EXCEPT ![w].pc = "limiter", ![w].page_id = id,
                                  ![w].prev_etag = pages[id].etag,
                                  ![w].prev_lm = pages[id].last_modified]
          ELSE Goto(w, "insert")
  /\ UNCHANGED <<frontier, unfinished, seen, stop_event, fetched, pages,
                 fetch_log, links, pend, raw, meta, rp_cache, robots_gets,
                 http_gets, wall, main_pc>>
  /\ UNCHANGED <<limiterVars, sideVars>>

\* the UNIQUE constraint on pages.url
UrlStored(u) == PageIdOf(u) # NoVal

\* upsert_page: INSERT, commit, SELECT again.  The INSERT raises
\* sqlite3.IntegrityError when another connection stored the url in between.
UpsertInsert(w) ==
  /\ At(w, "insert")
  /\ IF UrlStored(loc[w].url)
       THEN /\ loc' = [loc EXCEPT ![w].pc = "except", ![w].e = "IntegrityError"]
            /\ UNCHANGED <<pages, wall, links, pend>>
       ELSE /\ pages' = Append(pages, NewPage(loc[w].url, loc[w].depth, wall))
            /\ wall' = wall + 1
            /\ links' = InsertAll(links, pend[w])
            /\ pend' = [pend EXCEPT ![w] = << >>]
            /\ loc' = [loc EXCEPT ![w].pc = "limiter",
                                  ![w].page_id = Len(pages) + 1,
                                  ![w].prev_etag = NoVal, ![w].prev_lm = NoVal]
  /\ UNCHANGED <<frontier, unfinished, seen, stop_event, fetched, fetch_log,
                 raw, meta, rp_cache, robots_gets, http_gets, main_pc>>
  /\ UNCHANGED <<limiterVars, sideVars>>

-----------------------------------------------------------------------------
(* RateLimiter: times are ticks of 5 seconds, rates are milli-requests per   *)
(* second, so 1.0 / r seconds is 200 \div r ticks                            *)

Max(a, b) == IF a >= b THEN a ELSE b

\* period = 1.0 / max(self.rps, 0.1)
period == 200 \div Max(rps, 100)

\* next_ok = self.last.get(host, 0.0) + period
next_ok(h) == last[h] + period

\* the period is left out of the reservation
sleepWithoutPeriod(h, t) == Max(0, last[h] - t)

\* sleep = max(0.0, next_ok - now), for the instant t read from time.monotonic()
sleep(h, t) == Max(0, next_ok(h) - t)

\* limiter.wait(host) as the worker sees it: the slot is reserved and the call
\* returns once the sleep has elapsed
LimiterWait(w) ==
  /\ At(w, "limiter")
  /\ LET h == HostOf(loc[w].url)
         slot == now + sleep(h, now)
     IN /\ last' = [last EXCEPT ![h] = slot]
        /\ now' = slot
  /\ Goto(w, "fetch")
  /\ UNCHANGED <<frontier, unfinished, seen, stop_event, fetched, pages,
                 fetch_log, links, pend, raw, meta, rp_cache, robots_gets,
                 http_gets, wall, main_pc>>
  /\ UNCHANGED <<rl_lock, rps, hist, released, rets, sideVars>>

-----------------------------------------------------------------------------
(* crawl.worker: the fetch and its outcomes *)

\* what session.get can answer: <<status, "text/html" in ctype>>; 304 only
\* answers a conditional request
Responses(w) ==
  {<<200, TRUE>>, <<200, FALSE>>, <<404, TRUE>>}
    \cup (IF loc[w].prev_etag # NoVal \/ loc[w].prev_lm # NoVal
            THEN {<<304, FALSE>>} ELSE {})

\* the content type is not looked at
BranchIgnoringCtype(status, is_html) ==
  IF status = 304 THEN "s304"
  ELSE IF status # 200 THEN "skip"
  ELSE "raw"

\* the branch taken on status and on "text/html" in ctype
Branch(status, is_html) ==
  IF status = 304 THEN "s304"
  ELSE IF status # 200 \/ ~is_html THEN "skip"
  ELSE "raw"

\* resp = session.get(url, ...): a response, or a transport error
Fetch(w) ==
  /\ At(w, "fetch")
  /\ http_gets' = [http_gets EXCEPT ![loc[w].url] = @ + 1]
  /\ \/ loc' = [loc EXCEPT ![w].pc = "except", ![w].e = "ConnectionError"]
     \/ \E r \in Responses(w) :
          loc' = [loc EXCEPT
                    ![w].status = r[1], ![w].ctype = r[2],
                    ![w].html = IF r[1] = 200 THEN BodyOf(loc[w].url) ELSE NoVal,
                    ![w].pc = Branch(r[1], r[2])]
  /\ UNCHANGED <<frontier, unfinished, seen, stop_event, fetched, pages,
                 fetch_log, links, pend, raw, meta, rp_cache, robots_gets,
                 wall, main_pc>>
  /\ UNCHANGED <<limiterVars, sideVars>>

\* conn.commit() on the connection of w: its pending link rows become visible
Committed(w) == InsertAll(links, pend[w])

\* save_fetch_log(...); UPDATE pages SET last_seen=?, last_status=?; commit
LogAndTouch(w, err) ==
  /\ fetch_log' = Append(fetch_log,
                         LogRow(loc[w].page_id, wall, loc[w].status, 0, err))
  /\ pages' = [pages EXCEPT ![loc[w].page_id].last_seen = wall,
                            ![loc[w].page_id].last_status = loc[w].status]
  /\ links' = Committed(w)
  /\ pend' = [pend EXCEPT ![w] = << >>]
  /\ unfinished' = task_done(unfinished)
  /\ Continue(w)
  /\ UNCHANGED <<frontier, seen, stop_event, fetched, raw, meta, rp_cache,
                 robots_gets, http_gets, wall, main_pc>>
  /\ UNCHANGED <<limiterVars, sideVars>>

\* if status == 304: ...
NotModified(w) ==
  /\ At(w, "s304")
  /\ LogAndTouch(w, NoErr)

\* if status != 200 or "text/html" not in ctype: ...
SkipStatus(w) ==
  /\ At(w, "skip")
  /\ LogAndTouch(w, "ctype")

\* write_raw(page_id, html)
WriteRaw(w) ==
  /\ At(w, "raw")
  /\ raw' = [raw EXCEPT ![loc[w].page_id] = loc[w].html]
  /\ Goto(w, "meta")
  /\ UNCHANGED <<frontier, unfinished, seen, stop_event, fetched, pages,
                 fetch_log, links, pend, meta, rp_cache, robots_gets, http_gets,
                 wall, main_pc>>
  /\ UNCHANGED <<limiterVars, sideVars>>

\* chash = md5(html); write_meta(page_id, {..., "content_hash": chash, ...})
WriteMeta(w) ==
  /\ At(w, "meta")
  /\ meta' = [meta EXCEPT ![loc[w].page_id] = Md5(loc[w].html)]
  /\ Goto(w, "persist")
  /\ UNCHANGED <<frontier, unfinished, seen, stop_event, fetched, pages,
                 fetch_log, links, pend, raw, rp_cache, robots_gets, http_gets,
                 wall, main_pc>>
  /\ UNCHANGED <<limiterVars, sideVars>>

\* UPDATE pages SET last_seen, last_status, etag, last_modified, content_hash;
\* save_fetch_log(conn, page_id, status, len(html), None)
Persist(w) ==
  /\ At(w, "persist")
  /\ pages' = [pages EXCEPT ![loc[w].page_id] =
                 [@ EXCEPT !.last_seen = wall, !.last_status = loc[w].status,
                           !.etag = EtagOf(loc[w].html),
                           !.last_modified = NoVal,
                           !.content_hash = Md5(loc[w].html)]]
  /\ fetch_log' = Append(fetch_log,
                         LogRow(loc[w].page_id, wall, loc[w].status,
                                len(loc[w].html), NoErr))
  /\ links' = Committed(w)
  /\ pend' = [pend EXCEPT ![w] = << >>]
  /\ Goto(w, "gate")
  /\ UNCHANGED <<frontier, unfinished, seen, stop_event, fetched, raw, meta,
                 rp_cache, robots_gets, http_gets, wall, main_pc>>
  /\ UNCHANGED <<limiterVars, sideVars>>

-----------------------------------------------------------------------------
(* crawl.worker: link handling, quota and the end of an iteration *)

\* if depth + 1 <= max_depth and not stop_event.is_set()
GateOpen(w) == loc[w].depth + 1 <= max_depth /\ ~stop_event

\* the gate, then links = extract_links(url, html) or [] (a raising extractor
\* is caught and leaves links = [])
Gate(w) ==
  /\ At(w, "gate")
  /\ IF GateOpen(w)
       THEN \E ok \in BOOLEAN :
              LET ls == IF ok THEN LinksOf(loc[w].url) ELSE << >>
              IN loc' = [loc EXCEPT ![w].links = ls, ![w].i = 1,
                                    ![w].pc = IF ls = << >> THEN "count" ELSE "loop"]
       ELSE Goto(w, "count")
  /\ UNCHANGED <<frontier, unfinished, seen, stop_event, fetched, pages,
                 fetch_log, links, pend, raw, meta, rp_cache, robots_gets,
                 http_gets, wall, main_pc>>
  /\ UNCHANGED <<limiterVars, sideVars>>

\* if allowed_by_patterns(to_url, ...) and to_url not in seen
Enqueue(to_url) == allowed_by_patterns(to_url) /\ to_url \notin seen

\* one iteration of: for to_url, anchor in links
LinkStep(w) ==
  /\ At(w, "loop")
  /\ LET l == loc[w].links[loc[w].i]
         to_url == l[1]
         anchor == l[2]
     IN /\ IF Enqueue(to_url)
             THEN /\ frontier' = Append(frontier, <<to_url, loc[w].depth + 1>>)
                  /\ unfinished' = unfinished + 1
             ELSE UNCHANGED <<frontier, unfinished>>
        /\ pend' = [pend EXCEPT ![w] =
                      Append(@, [from_page |-> loc[w].page_id, to_url |-> to_url,
                                 anchor |-> anchor])]
  /\ loc' = [loc EXCEPT ![w].i = @ + 1,
                        ![w].pc = IF loc[w].i = Len(loc[w].links)
                                    THEN "count" ELSE "loop"]
  /\ UNCHANGED <<seen, stop_event, fetched, pages, fetch_log, links, raw, meta,
                 rp_cache, robots_gets, http_gets, wall, main_pc>>
  /\ UNCHANGED <<limiterVars, sideVars>>

\* the quota test lets one more page through
QuotaHitLate(c) == c > max_pages

\* if fetched >= max_pages, for the counter value c
QuotaHit(c) == c >= max_pages

\* with fetch_lock: fetched += 1; if fetched >= max_pages: stop_event.set()
Count(w) ==
  /\ At(w, "count")
  /\ fetched' = fetched + 1
  /\ stop_event' = (stop_event \/ QuotaHit(fetched + 1))
  /\ Goto(w, "commit")
  /\ UNCHANGED <<frontier, unfinished, seen, pages, fetch_log, links, pend, raw,
                 meta, rp_cache, robots_gets, http_gets, wall, main_pc>>
  /\ UNCHANGED <<limiterVars, sideVars>>

\* conn.commit(); frontier.task_done().  The commit can raise
\* sqlite3.OperationalError (the database is locked by another connection);
\* the transaction then stays open and the handler takes over.
FinalCommit(w) ==
  /\ At(w, "commit")
  /\ \/ /\ links' = Committed(w)
        /\ pend' = [pend EXCEPT ![w] = << >>]
        /\ unfinished' = task_done(unfinished)
        /\ Continue(w)
     \/ /\ loc' = [loc EXCEPT ![w].pc = "except", ![w].e = "OperationalError"]
        /\ UNCHANGED <<links, pend, unfinished>>
  /\ UNCHANGED <<frontier, seen, stop_event, fetched, pages, fetch_log, raw,
                 meta, rp_cache, robots_gets, http_gets, wall, main_pc>>
  /\ UNCHANGED <<limiterVars, sideVars>>

\* the handler never writes the sentinel row
PageIdNeverBound(w) == FALSE

\* 'page_id' in locals()
PageIdBound(w) == loc[w].page_id # NoVal

\* except Exception as e: best-effort save_fetch_log(conn, page_id, -1, 0, str(e));
\* frontier.task_done()
Except(w) ==
  /\ At(w, "except")
  /\ IF PageIdBound(w)
       THEN /\ fetch_log' = Append(fetch_log,
                                   LogRow(loc[w].page_id, wall, -1, 0, loc[w].e))
            /\ links' = Committed(w)
            /\ pend' = [pend EXCEPT ![w] = << >>]
       ELSE UNCHANGED <<fetch_log, links, pend>>
  /\ unfinished' = task_done(unfinished)
  /\ Continue(w)
  /\ UNCHANGED <<frontier, seen, stop_event, fetched, pages, raw, meta,
                 rp_cache, robots_gets, http_gets, wall, main_pc>>
  /\ UNCHANGED <<limiterVars, sideVars>>

Step(w) ==
  \/ Get(w) \/ GetEmpty(w) \/ StopCheck(w) \/ SeenCheck(w) \/ SeenAdd(w)
  \/ RobotsOk(w) \/ UpsertSelect(w) \/ UpsertInsert(w) \/ LimiterWait(w)
  \/ Fetch(w) \/ NotModified(w) \/ SkipStatus(w) \/ WriteRaw(w) \/ WriteMeta(w)
  \/ Persist(w) \/ Gate(w) \/ LinkStep(w) \/ Count(w) \/ FinalCommit(w)
  \/ Except(w)

\* frontier.join() returns when unfinished_tasks is 0
Join ==
  /\ main_pc = "join"
  /\ unfinished = 0
  /\ main_pc' = "done"
  /\ UNCHANGED <<frontier, unfinished, seen, stop_event, fetched, pages,
                 fetch_log, links, pend, raw, meta, rp_cache, robots_gets,
                 http_gets, wall, loc>>
  /\ UNCHANGED <<limiterVars, sideVars>>

InitLimiterIdle ==
  /\ last = [h \in Hosts |-> 0]
  /\ now = 0
  /\ rl_lock = 0
  /\ rps = 200
  /\ hist = [h \in Hosts |-> << >>]
  /\ released = [h \in Hosts |-> << >>]
  /\ rets = {}

\* the file, url and link harnesses below are not in use
InitSideIdle ==
  /\ names = << >>
  /\ inodes = << >>
  /\ wr = << >>
  /\ u_in = << >>
  /\ u_out = << >>
  /\ cfg = << >>
  /\ cur = << >>

Init == InitCrawl /\ InitLimiterIdle /\ InitSideIdle

Next == (\E w \in Workers : Step(w)) \/ Join

Spec == Init /\ [][Next]_vars

\* thread scheduling is fair and every blocking call returns: each worker
\* that can take a step eventually does, and so does the joining main thread
FairSpec == Spec /\ (\A w \in Workers : WF_vars(Step(w))) /\ WF_vars(Join)

-----------------------------------------------------------------------------
(* Properties of the crawl *)

Moves(w) == loc'[w].pc # loc[w].pc

AllStatus200 == \A i \in DOMAIN fetch_log : fetch_log[i].status = 200

\* C1: when every page answers 200 text/html and no url is fetched twice, the
\* quota counter never exceeds max_pages, and a finished run ends with exactly
\* max_pages completed 200 paths.
QuotaExact ==
  (AllStatus200 /\ \A u \in Urls : http_gets[u] <= 1)
    => /\ fetched <= max_pages
       /\ main_pc = "done" /\ fetched > 0 => fetched = max_pages

AllExited == \A w \in Workers : At(w, "exited")

Drained == frontier = << >> /\ unfinished = 0

DrainAfterStop ==
  /\ [][\A w \in Workers :
          (loc[w].pc = "stop" /\ stop_event /\ Moves(w))
            => /\ loc'[w].pc = "get"
               /\ unfinished' = unfinished - 1
               /\ UNCHANGED <<robots_gets, rp_cache, pages, last, http_gets,
                              raw, meta, fetch_log, links, pend, seen,
                              frontier, fetched>>]_vars
  /\ [][\A w \in Workers :
          (loc[w].pc = "stop" /\ ~stop_event /\ Moves(w))
            => loc'[w].pc = "seen"]_vars
  /\ (stop_event ~> frontier = << >>)

\* an item for url 2 was put on the frontier by page 1, and the run ended
\* without url 2 ever entering seen: it was dropped at a stop check
DrainWitness ==
  /\ stop_event
  /\ Drained
  /\ AllExited
  /\ 2 \notin seen
  /\ \E r \in links : r.to_url = 2 /\ pages[r.from_page].url = 1

Processing == {"robots", "upsert", "insert", "limiter", "fetch", "s304", "skip",
               "raw", "meta", "persist", "gate", "loop", "count", "commit",
               "except"}

\* C4: no two workers are past the seen check with the same url, and no url
\* receives more than one GET in the run.
SeenOnce ==
  /\ \A w1, w2 \in Workers :
       (w1 # w2 /\ loc[w1].pc \in Processing /\ loc[w2].pc \in Processing)
         => loc[w1].url # loc[w2].url
  /\ \A u \in Urls : http_gets[u] <= 1

\* C6: no upsert_page call of a worker ends in an error.
UpsertNeverFails == \A w \in Workers : loc[w].e # "IntegrityError"

NonFresh(w) ==
  /\ loc[w].pc \in {"s304", "skip", "raw"}
  /\ loc[w].status # 200 \/ ~loc[w].ctype

\* C7: a worker holding a 304, a non-200 status or a non-HTML 200 finishes the
\* item in a step that appends one fetch_log row (that page, that status,
\* bytes 0), sets the page's last_seen and last_status, and changes nothing
\* else of the pages table, no artifact, no sidecar, no link row, not the
\* frontier and not the quota counter.
NonFreshFrame ==
  [][\A w \in Workers :
       (NonFresh(w) /\ Moves(w)) =>
         LET pid == loc[w].page_id IN
         /\ Len(fetch_log') = Len(fetch_log) + 1
         /\ SubSeq(fetch_log', 1, Len(fetch_log)) = fetch_log
         /\ fetch_log'[Len(fetch_log')].page_id = pid
         /\ fetch_log'[Len(fetch_log')].status = loc[w].status
         /\ fetch_log'[Len(fetch_log')].bytes = 0
         /\ pages'[pid].last_status = loc[w].status
         /\ pages'[pid].last_seen = wall
         /\ pages' = [pages EXCEPT ![pid].last_status = loc[w].status,
                                   ![pid].last_seen = wall]
         /\ UNCHANGED <<raw, meta, links, pend, frontier, fetched, stop_event>>
         /\ loc'[w].pc = "get"]_vars

\* page 2, stored by the earlier run, answered 304 in this run and still has
\* the earlier hash, validators and artifact
NonFreshWitness ==
  \E i \in DOMAIN fetch_log :
    /\ fetch_log[i].status = 304
    /\ fetch_log[i].bytes = 0
    /\ pages[fetch_log[i].page_id].last_status = 304
    /\ pages[fetch_log[i].page_id].content_hash = Md5(OldBodyOf(2))
    /\ raw[fetch_log[i].page_id] = OldBodyOf(2)

SentinelRow(w) == LogRow(loc[w].page_id, wall, -1, 0, loc[w].e)

RobotsFetchOnce ==
  [][\A h \in Hosts : robots_gets[h] > 0 => robots_gets'[h] = robots_gets[h]]_vars

\* C12: a robots_ok call never raises; when neither scheme yielded a ruleset it
\* answers true and the item goes on to upsert and fetch; when there is a
\* ruleset the item goes on exactly if the '*' rules allow its url, and is
\* otherwise dropped with task_done.
RobotsFailOpen ==
  [][\A w \in Workers :
       loc[w].pc = "robots" /\ Moves(w) =>
         LET u == loc[w].url
             h == HostOf(u)
         IN /\ loc'[w].pc \in {"upsert", "get"}
            /\ ~rp_cache'[h] =>
                 /\ loc'[w].pc = "upsert" /\ loc'[w].url = u
                 /\ unfinished' = unfinished
                 /\ robots_gets'[h] = robots_gets[h] + 2
            /\ rp_cache'[h] =>
                 /\ loc'[w].pc = "upsert" <=> u \notin RobotsDisallowed
                 /\ loc'[w].pc = "get" => unfinished' = unfinished - 1]_vars

\* a url the '*' rules disallow was requested after both robots.txt requests
\* of its host had failed
RobotsFailOpenWitness ==
  \E u \in RobotsDisallowed : http_gets[u] > 0 /\ robots_gets[HostOf(u)] >= 2

-----------------------------------------------------------------------------
(* upsert_page called directly, as the test suite does: each caller has its *)
(* own connection and calls with a url and a depth of its choice            *)

MaxCallDepth == 2

CallUrls == {1, 2}

Idle(w) == loc' = [loc EXCEPT ![w] = [InitLoc EXCEPT !.pc = "idle"]]

UpsertCall(w, u, d) ==
  /\ At(w, "idle")
  /\ loc' = [loc EXCEPT ![w].pc = "upsert", ![w].url = u, ![w].depth = d]
  /\ UNCHANGED <<frontier, unfinished, seen, stop_event, fetched, pages,
                 fetch_log, links, pend, raw, meta, rp_cache, robots_gets,
                 http_gets, wall, main_pc>>
  /\ UNCHANGED <<limiterVars, sideVars>>

\* the call returns (id, etag, last_modified)
UpsertReturn(w) ==
  /\ At(w, "limiter")
  /\ rets' = rets \cup {[url |-> loc[w].url, depth |-> loc[w].depth,
                         id |-> loc[w].page_id, etag |-> loc[w].prev_etag,
                         last_modified |-> loc[w].prev_lm]}
  /\ Idle(w)
  /\ UNCHANGED <<frontier, unfinished, seen, stop_event, fetched, pages,
                 fetch_log, links, pend, raw, meta, rp_cache, robots_gets,
                 http_gets, wall, main_pc>>
  /\ UNCHANGED <<last, now, rl_lock, rps, hist, released, sideVars>>

\* the call raises to its caller
UpsertRaise(w) ==
  /\ At(w, "except")
  /\ Idle(w)
  /\ UNCHANGED <<frontier, unfinished, seen, stop_event, fetched, pages,
                 fetch_log, links, pend, raw, meta, rp_cache, robots_gets,
                 http_gets, wall, main_pc>>
  /\ UNCHANGED <<limiterVars, sideVars>>

UpsertInit ==
  InitStore /\ InitProcess(<< >>, "idle") /\ InitLimiterIdle /\ InitSideIdle

UpsertNext ==
  \E w \in Workers :
    \/ \E u \in CallUrls, d \in 0..MaxCallDepth : UpsertCall(w, u, d)
    \/ UpsertSelect(w)
    \/ UpsertInsert(w)
    \/ UpsertReturn(w)
    \/ UpsertRaise(w)

UpsertSpec == UpsertInit /\ [][UpsertNext]_vars

UrlHasRow(u) == \E i \in DOMAIN pages : pages[i].url = u

RowOf(u) == CHOOSE i \in DOMAIN pages : pages[i].url = u

\* C5: upsert_page calls for one url, whatever their depths, all return the
\* same page id, and there is one Page row per url; a call that finds the url
\* stored returns the stored id, etag and last_modified and changes no column
\* of any row.
IdempotentUpsert ==
  /\ [](\A i, j \in DOMAIN pages : pages[i].url = pages[j].url => i = j)
  /\ [](\A r1, r2 \in rets : r1.url = r2.url => r1.id = r2.id)
  /\ [](\A r \in rets : r.id \in DOMAIN pages /\ pages[r.id].url = r.url)
  /\ [][\A w \in Workers :
          (loc[w].pc = "upsert" /\ UrlHasRow(loc[w].url) /\ Moves(w))
            => /\ pages' = pages
               /\ loc'[w].pc = "limiter"
               /\ loc'[w].page_id = RowOf(loc[w].url)
               /\ loc'[w].prev_etag = pages[RowOf(loc[w].url)].etag
               /\ loc'[w].prev_lm = pages[RowOf(loc[w].url)].last_modified]_vars

\* two calls for url 1 with different depths have returned the same id, the
\* row keeps the depth of the call that created it, and a call for the page
\* of the earlier run has returned its stored etag
IdempotentUpsertWitness ==
  /\ \E r1, r2 \in rets :
       /\ r1.url = 1 /\ r2.url = 1
       /\ r1.depth # r2.depth
       /\ r1.id = r2.id
       /\ pages[r1.id].depth = r1.depth
  /\ \E r \in rets : r.url = 2 /\ r.etag = EtagOf(OldBodyOf(2))


-----------------------------------------------------------------------------
(* RateLimiter.wait(host), statement by statement, for callers that run it  *)
(* concurrently while the clock advances                                    *)

MaxCalls == 2

MaxTime == 6

\* rps_per_host values of the configuration, in milli-requests per second
Rates == {50, 100, 200}

\* one url per host stands for the host argument
CallHosts == {1, 5}

Reserved == Len(hist[1]) + Len(hist[2])

InWait == {w \in Workers : loc[w].pc \in {"rl_lock", "rl_now", "rl_write"}}

RlCall(w, u) ==
  /\ At(w, "idle")
  /\ Reserved + Cardinality(InWait) < MaxCalls
  /\ loc' = [loc EXCEPT ![w].pc = "rl_lock", ![w].url = u]
  /\ UNCHANGED <<crawlVarsButLoc, sideVars>>
  /\ UNCHANGED limiterVars

\* wait() runs without taking the lock
LockIgnored == TRUE

\* self.lock can be taken
LockFree == rl_lock = 0

\* with self.lock: now = time.monotonic()
RlAcquire(w) ==
  /\ At(w, "rl_lock")
  /\ LockFree
  /\ rl_lock' = w
  /\ loc' = [loc EXCEPT ![w].pc = "rl_now", ![w].t = now]
  /\ UNCHANGED <<crawlVarsButLoc, sideVars>>
  /\ UNCHANGED <<last, now, rps, hist, released, rets>>

\* period = ...; next_ok = ...; sleep = max(0.0, next_ok - now)
RlSleepFor(w) ==
  /\ At(w, "rl_now")
  /\ loc' = [loc EXCEPT ![w].pc = "rl_write",
                        ![w].sleep = sleep(HostOf(loc[w].url), loc[w].t)]
  /\ UNCHANGED <<crawlVarsButLoc, sideVars>>
  /\ UNCHANGED <<limiterVars, sideVars>>

\* self.last[host] = now + sleep, and the lock is released
RlWrite(w) ==
  /\ At(w, "rl_write")
  /\ LET h == HostOf(loc[w].url)
         slot == loc[w].t + loc[w].sleep
     IN /\ last' = [last EXCEPT ![h] = slot]
        /\ hist' = [hist EXCEPT ![h] = Append(@, [t |-> loc[w].t, slot |-> slot])]
  /\ rl_lock' = 0
  /\ Goto(w, "rl_sleep")
  /\ UNCHANGED <<crawlVarsButLoc, sideVars>>
  /\ UNCHANGED <<now, rps, released, rets>>

\* if sleep: time.sleep(sleep) -- the call returns at some instant not before
\* the reserved slot
RlWake(w) ==
  /\ At(w, "rl_sleep")
  /\ now >= loc[w].t + loc[w].sleep
  /\ released' = [released EXCEPT ![HostOf(loc[w].url)] = Append(@, now)]
  /\ Idle(w)
  /\ UNCHANGED <<crawlVarsButLoc, sideVars>>
  /\ UNCHANGED <<last, now, rl_lock, rps, hist, rets>>

\* time.monotonic() advances
Tick ==
  /\ now < MaxTime
  /\ now' = now + 1
  /\ UNCHANGED <<crawlVars, sideVars>>
  /\ UNCHANGED <<last, rl_lock, rps, hist, released, rets>>

LimiterInit ==
  /\ InitStore
  /\ InitProcess(<< >>, "idle")
  /\ last = [h \in Hosts |-> 0]
  /\ now = 0
  /\ rl_lock = 0
  /\ rps \in Rates
  /\ hist = [h \in Hosts |-> << >>]
  /\ released = [h \in Hosts |-> << >>]
  /\ rets = {}
  /\ InitSideIdle

LimiterNext ==
  \/ \E w \in Workers :
       \/ \E u \in CallHosts : RlCall(w, u)
       \/ RlAcquire(w)
       \/ RlSleepFor(w)
       \/ RlWrite(w)
       \/ RlWake(w)
  \/ Tick

LimiterSpec == LimiterInit /\ [][LimiterNext]_vars

PrevSlot(h, i) == IF i = 1 THEN 0 ELSE hist[h][i - 1].slot

RECURSIVE SeqMax(_)
SeqMax(q) == IF Len(q) = 1 THEN q[1] ELSE Max(q[1], SeqMax(Tail(q)))

\* every wait() that reserved a slot for h has returned
AllReleased(h) == Len(hist[h]) >= 1 /\ Len(released[h]) = Len(hist[h])

-----------------------------------------------------------------------------
(* _atomic_write_bytes / _atomic_write_text as the worker threads call them: *)
(* the directory maps a file name to an inode, a writer holds the inode it   *)
(* opened and its own file offset                                            *)

\* calls made by one thread
MaxWrites == 2

NumPaths == 2

\* final paths: RAW_DIR/{page_id}.html (or .meta.json) for page ids 1..NumPaths
Paths == 1..NumPaths

\* the bodies handed to the call, and the body an earlier run stored
Datas == {1, 2}

OldData == 9

\* length of a body, in bytes
DataLen == 2

\* the bytes of body d
BytesOf(d) == [k \in 1..DataLen |-> d]

FinalName(path) == <<path, "">>

\* tmp = path + ".tmp"
TmpName(path) == <<path, ".tmp">>

FileNames == {FinalName(q) : q \in Paths} \cup {TmpName(q) : q \in Paths}

WrIdle == [pc |-> "idle", path |-> NoVal, data |-> NoVal, fd |-> NoVal,
           off |-> 0, n |-> 0, err |-> NoErr]

fileFrame ==
  <<frontier, unfinished, seen, stop_event, fetched, pages, fetch_log, links,
    pend, raw, meta, rp_cache, robots_gets, http_gets, wall, loc, main_pc,
    limiterVars, urlVars, linkVars>>

\* write_raw(page_id, html) / write_meta(page_id, meta) enters the helper
AwCall(w, path, d) ==
  /\ wr[w].pc = "idle"
  /\ wr[w].n < MaxWrites
  /\ wr' = [wr EXCEPT ![w] = [pc |-> "open", path |-> path, data |-> d,
                              fd |-> NoVal, off |-> 0, n |-> wr[w].n + 1,
                              err |-> NoErr]]
  /\ UNCHANGED <<names, inodes>>
  /\ UNCHANGED fileFrame

\* open(tmp, "wb"): creates the file, or truncates the inode the name points to
AwOpen(w) ==
  /\ wr[w].pc = "open"
  /\ LET t == TmpName(wr[w].path)
     IN IF names[t] = NoVal
          THEN /\ inodes' = Append(inodes, << >>)
               /\ names' = [names EXCEPT ![t] = Len(inodes) + 1]
               /\ wr' = [wr EXCEPT ![w].pc = "write", ![w].fd = Len(inodes) + 1]
          ELSE /\ inodes' = [inodes EXCEPT ![names[t]] = << >>]
               /\ wr' = [wr EXCEPT ![w].pc = "write", ![w].fd = names[t]]
               /\ UNCHANGED names
  /\ UNCHANGED fileFrame

\* a write at offset k of a file: bytes before k missing from the file read as 0
WriteAt(bytes, k, b) ==
  [j \in 1..(IF k > Len(bytes) THEN k ELSE Len(bytes)) |->
     IF j = k THEN b ELSE IF j <= Len(bytes) THEN bytes[j] ELSE 0]

\* f.write(data); f.flush(): the bytes reach the inode one after the other
AwWrite(w) ==
  /\ wr[w].pc = "write"
  /\ wr[w].off < DataLen
  /\ inodes' = [inodes EXCEPT ![wr[w].fd] =
                  WriteAt(@, wr[w].off + 1, BytesOf(wr[w].data)[wr[w].off + 1])]
  /\ wr' = [wr EXCEPT ![w].off = @ + 1]
  /\ UNCHANGED names
  /\ UNCHANGED fileFrame

\* os.fsync(f.fileno()) and the close at the end of the with block
AwSync(w) ==
  /\ wr[w].pc = "write"
  /\ wr[w].off = DataLen
  /\ wr' = [wr EXCEPT ![w].pc = "replace", ![w].fd = NoVal]
  /\ UNCHANGED <<names, inodes>>
  /\ UNCHANGED fileFrame

\* os.replace(tmp, path): one atomic rename; FileNotFoundError without tmp
AwReplace(w) ==
  /\ wr[w].pc = "replace"
  /\ LET t == TmpName(wr[w].path)
         f == FinalName(wr[w].path)
     IN IF names[t] = NoVal
          THEN /\ wr' = [wr EXCEPT ![w].pc = "idle", ![w].err = "FileNotFoundError"]
               /\ UNCHANGED names
          ELSE /\ names' = [names EXCEPT ![f] = names[t], ![t] = NoVal]
               /\ wr' = [wr EXCEPT ![w].pc = "idle"]
  /\ UNCHANGED inodes
  /\ UNCHANGED fileFrame

\* the process is killed: no thread takes another step, the files stay
Crash ==
  /\ \E w \in Workers : wr[w].pc # "dead"
  /\ wr' = [w \in Workers |-> [wr[w] EXCEPT !.pc = "dead"]]
  /\ UNCHANGED <<names, inodes>>
  /\ UNCHANGED fileFrame

\* RAW_DIR at start: each final path absent or holding what an earlier run
\* wrote completely; inode q is that earlier file of path q
WriteInit ==
  /\ InitStore
  /\ InitProcess(<< >>, "idle")
  /\ InitLimiterIdle
  /\ \E old \in SUBSET Paths :
       names = [f \in FileNames |->
                  IF f[2] = "" /\ f[1] \in old THEN f[1] ELSE NoVal]
  /\ inodes = [q \in Paths |-> BytesOf(OldData)]
  /\ wr = [w \in Workers |-> WrIdle]
  /\ u_in = << >> /\ u_out = << >> /\ cfg = << >> /\ cur = << >>

WriteNext ==
  \/ \E w \in Workers :
       \/ \E path \in Paths, d \in Datas : AwCall(w, path, d)
       \/ AwOpen(w)
       \/ AwWrite(w)
       \/ AwSync(w)
       \/ AwReplace(w)
  \/ Crash

WriteSpec == WriteInit /\ [][WriteNext]_vars

\* a file holding all the bytes of one body and nothing else
Complete(bytes) == \E d \in Datas \cup {OldData} : bytes = BytesOf(d)

\* C13: in every state, a crash after any step included, each final path is
\* absent or holds one complete body (the previous or the new one); a file
\* with only part of a body exists at most under the '.tmp' name.
ArtifactNeverPartial ==
  \A path \in Paths :
    names[FinalName(path)] # NoVal => Complete(inodes[names[FinalName(path)]])

-----------------------------------------------------------------------------
(* Urls as text.  A url is the sequence of its pieces; the delimiters "://", *)
(* "?", "&" and "#" are pieces of their own, a title is cut at its           *)
(* underscores ("_", "_in_", "_of_", "_from_", "_at_") and after a namespace *)
(* ("Category:"), a query parameter after its "="                            *)

\* what canon_url returns for an edit-action url
None == <<"None">>

\* canon_url(None): urldefrag(None) yields bytes, and bytes.endswith(str) raises
TypeError == <<"TypeError">>

Schemes == {"https", "http"}

\* hosts whose name ends with "wikipedia.org", and one that does not
WikipediaHosts == {"en.wikipedia.org", "zh.wikipedia.org"}

HostNames == WikipediaHosts \cup {"example.org"}

Contains(s, tok) == \E i \in 1..Len(s) : s[i] = tok

\* index of the first piece equal to tok, 0 when there is none
IndexOf(s, tok) ==
  IF Contains(s, tok)
    THEN CHOOSE i \in 1..Len(s) : s[i] = tok /\ \A j \in 1..(i - 1) : s[j] # tok
    ELSE 0

StartsWith(s, prefix) ==
  Len(s) >= Len(prefix) /\ SubSeq(s, 1, Len(prefix)) = prefix

\* the pieces before the i-th one, all of s when i = 0
Upto(s, i) == IF i = 0 THEN s ELSE SubSeq(s, 1, i - 1)

\* the pieces behind the i-th one, none when i = 0
Behind(s, i) == IF i = 0 THEN << >> ELSE SubSeq(s, i + 1, Len(s))

\* number of leading pieces that make up scheme, "://" and netloc
AuthorityLen(u) ==
  IF Len(u) >= 2 /\ u[2] = "://"
    THEN (IF Len(u) >= 3 /\ u[3] \in HostNames THEN 3 ELSE 2)
    ELSE 0

\* the query is what follows the first "?" of the part before the fragment
SplitQuery(scheme, netloc, front, fragment, q) ==
  [scheme |-> scheme, netloc |-> netloc, path |-> Upto(front, q),
   query |-> Behind(front, q), fragment |-> fragment]

\* the fragment is what follows the first "#"
SplitFragment(scheme, netloc, rest, h) ==
  SplitQuery(scheme, netloc, Upto(rest, h), Behind(rest, h),
             IndexOf(Upto(rest, h), "?"))

SplitAuthority(u, n) ==
  SplitFragment(IF n >= 2 THEN u[1] ELSE "", IF n = 3 THEN u[3] ELSE "",
                SubSeq(u, n + 1, Len(u)), IndexOf(SubSeq(u, n + 1, Len(u)), "#"))

\* urllib.parse.urlsplit: scheme before "://", netloc up to the first "/", "?"
\* or "#", fragment after the first "#", query after the first "?" before it
urlsplit(u) == SplitAuthority(u, AuthorityLen(u))

\* the path gets a leading slash even when it has one
urlunsplitAddingSlash(p) ==
  (IF p.scheme # "" THEN <<p.scheme, "://">> ELSE << >>)
    \o (IF p.netloc # "" THEN <<p.netloc, "/">> ELSE << >>)
    \o p.path
    \o (IF p.query # << >> THEN <<"?">> \o p.query ELSE << >>)
    \o (IF p.fragment # << >> THEN <<"#">> \o p.fragment ELSE << >>)

\* urllib.parse.urlunsplit: "?" and "#" are written only before a non-empty
\* query and fragment
urlunsplit(p) ==
  (IF p.scheme # "" THEN <<p.scheme, "://">> ELSE << >>)
    \o (IF p.netloc # "" THEN <<p.netloc>> ELSE << >>)
    \o p.path
    \o (IF p.query # << >> THEN <<"?">> \o p.query ELSE << >>)
    \o (IF p.fragment # << >> THEN <<"#">> \o p.fragment ELSE << >>)

\* urllib.parse.urldefrag(u)[0]: reassembled without fragment when "#" occurs
\* in u, u itself otherwise
urldefrag(u) ==
  IF Contains(u, "#")
    THEN urlunsplit([urlsplit(u) EXCEPT !.fragment = << >>])
    ELSE u

\* the url is returned as it came
canon_urlUnchanged(u) == u

\* the edit check and the reassembly, for p = urlsplit(u)
CanonParts(p) ==
  IF p.netloc \in WikipediaHosts /\ Contains(p.query, "action=edit")
    THEN None
    ELSE urlunsplit([p EXCEPT !.fragment = << >>])

canon_url(u) ==
  IF u = None THEN TypeError ELSE CanonParts(urlsplit(urldefrag(u)))

\* pieces that start with an underscore
Joiners == {"_in_", "_of_", "_from_", "_at_"}

Underscored == Joiners \cup {"_"}

\* pieces that contain ":" or "#"
ColonOrHash ==
  {"Category:", "Talk:", "Help:", "File:", "Special:", "Template:", "Portal:",
   "Wikipedia:", "://", "#"}

\* TOPIC_RX.search(u): the three alternatives after ^https://en\.wikipedia\.org/wiki/
is_topic_url(u) ==
  /\ StartsWith(u, <<"https", "://", "en.wikipedia.org", "/wiki/">>)
  /\ LET t == SubSeq(u, 5, Len(u))
         n == Len(t)
     IN \/ /\ n >= 1 /\ t[1] = "Nanjing"
           /\ (n = 1 \/ t[2] \in Underscored)
        \/ \E k \in 2..(n - 1) :
             /\ t[k] \in Joiners /\ t[k + 1] = "Nanjing"
             /\ (k + 1 = n \/ t[k + 2] \in Underscored)
             /\ \A j \in 1..(k - 1) : t[j] \notin ColonOrHash
        \/ /\ n >= 2 /\ t[1] = "Category:"
           /\ \E k \in 2..n : t[k] = "Nanjing"
           /\ \A j \in 2..n : t[j] \notin (ColonOrHash \ {"#"})

-----------------------------------------------------------------------------
(* canon_url and is_topic_url called on one url, as the test suite does *)

\* titles: the ones of test_is_topic_url
Titles ==
  { <<"Nanjing">>, <<"Nanjing", "_", "Metro">>, <<"History", "_of_", "Nanjing">>,
    <<"Category:", "Transport", "_in_", "Nanjing">>, <<"Shanghai">>,
    <<"Category:", "Something", "_", "else">> }

UrlPaths == {<<"/wiki/">> \o t : t \in Titles} \cup {<< >>, <<"/w/index.php">>}

\* no "?", an empty query, a query, and the query of an edit page
UrlQueries ==
  { << >>, <<"?">>, <<"?", "x=1">>, <<"?", "title=", "Nanjing", "&", "action=edit">> }

\* no "#", an empty fragment, a fragment
UrlFragments == { << >>, <<"#">>, <<"#", "History">> }

UrlInputs ==
  { <<sc, "://", h>> \o pa \o q \o f :
      sc \in Schemes, h \in HostNames, pa \in UrlPaths, q \in UrlQueries,
      f \in UrlFragments }

urlFrame ==
  <<frontier, unfinished, seen, stop_event, fetched, pages, fetch_log, links,
    pend, raw, meta, rp_cache, robots_gets, http_gets, wall, loc, main_pc,
    limiterVars, fileVars, linkVars>>

\* c = canon_url(u), then canon_url(c)
CanonCall ==
  /\ u_out' = [fn |-> "canon_url", res |-> canon_url(u_in),
               again |-> canon_url(canon_url(u_in))]
  /\ UNCHANGED u_in
  /\ UNCHANGED urlFrame

\* is_topic_url(u)
TopicCall ==
  /\ u_out' = [fn |-> "is_topic_url", res |-> is_topic_url(u_in), again |-> << >>]
  /\ UNCHANGED u_in
  /\ UNCHANGED urlFrame

UrlInit ==
  /\ InitStore
  /\ InitProcess(<< >>, "idle")
  /\ InitLimiterIdle
  /\ names = << >> /\ inodes = << >> /\ wr = << >>
  /\ u_in \in UrlInputs
  /\ u_out = [fn |-> "none", res |-> << >>, again |-> << >>]
  /\ cfg = << >> /\ cur = << >>

UrlNext == CanonCall \/ TopicCall

UrlSpec == UrlInit /\ [][UrlNext]_vars

\* C14 as stated: for every url u, canon_url(canon_url(u)) = canon_url(u).
CanonIdempotent ==
  u_out.fn = "canon_url" => u_out.again = u_out.res

\* C14: for every url u that canon_url does not reject (its result is not
\* None), canon_url(canon_url(u)) = canon_url(u).
CanonIdempotentOnUrls ==
  u_out.fn = "canon_url" /\ u_out.res # None => u_out.again = u_out.res

\* a url with a query and a fragment, which canon_url changed, and whose
\* canonical form canon_url leaves as it is
CanonIdempotentWitness ==
  /\ u_out.fn = "canon_url"
  /\ Contains(u_in, "#") /\ Contains(u_in, "x=1")
  /\ u_out.res # u_in /\ u_out.res # None
  /\ Contains(u_out.res, "x=1") /\ ~Contains(u_out.res, "#")
  /\ u_out.again = u_out.res

\* the title of a url https://<host>/wiki/<title> without query or fragment
TitleOf(u) == SubSeq(u, 5, Len(u))

\* scope by title: equal to or prefixed by the place name, ending in a joiner
\* and the place name, or a Category title containing the place name
TitleInScope(t) ==
  \/ t[1] = "Nanjing" /\ (Len(t) = 1 \/ t[2] \in Underscored)
  \/ Len(t) >= 3 /\ t[Len(t)] = "Nanjing" /\ t[Len(t) - 1] \in Joiners
       /\ t[1] # "Category:"
  \/ t[1] = "Category:" /\ \E k \in 2..Len(t) : t[k] = "Nanjing"

\* C18: for a url https://<lang>.wikipedia.org/wiki/<title>, on any Wikipedia
\* language host, is_topic_url answers true exactly when the title is in scope.
TopicByTitleAnyHost ==
  /\ u_out.fn = "is_topic_url"
  /\ u_in[1] = "https" /\ u_in[3] \in WikipediaHosts
  /\ Len(u_in) >= 5 /\ u_in[4] = "/wiki/"
  /\ ~Contains(u_in, "?") /\ ~Contains(u_in, "#")
  => (u_out.res <=> TitleInScope(TitleOf(u_in)))

-----------------------------------------------------------------------------
(* extract_links.  A page is the sequence of its <a> elements in document   *)
(* order: region is the id of the enclosing div ("mw-pages",                *)
(* "mw-subcategories", or "body" outside both), href and text are sequences *)
(* of pieces, hreflang is "" when the attribute is absent                   *)

Anchor(region, href, text, hreflang) ==
  [region |-> region, href |-> href, text |-> text, hreflang |-> hreflang]

\* s contains the pieces of sub, one after the other
ContainsSub(s, sub) ==
  \E i \in 1..(Len(s) - Len(sub) + 1) : SubSeq(s, i, i + Len(sub) - 1) = sub

\* the href's own scheme and host, or else those of base
JoinParts(b, r) ==
  IF r.scheme # "" THEN urlunsplit(r)
  ELSE urlunsplit([r EXCEPT !.scheme = b.scheme, !.netloc = b.netloc])

\* urllib.parse.urljoin(base, href) for an href that is absolute or starts
\* with "/"
urljoin(base, href) == JoinParts(urlsplit(base), urlsplit(href))

\* namespaces abs_wiki skips early
SkippedNamespaces ==
  {"Talk:", "Help:", "File:", "Special:", "Template:", "Portal:"}

abs_wiki(href) ==
  IF href = << >> \/ href[1] # "/wiki/" THEN None
  ELSE IF Len(href) >= 2 /\ href[2] \in SkippedNamespaces THEN None
  ELSE canon_url(urljoin(<<"https", "://", "en.wikipedia.org">>, href))

is_category(base_url) ==
  \/ ContainsSub(base_url, <<"/wiki/", "Category:">>)
  \/ /\ Contains(base_url, "/w/index.php")
     /\ ContainsSub(base_url, <<"title=", "Category:">>)

\* a piece with ":" behind the first piece of the path
ColonBehindFirst(path) == \E j \in 2..Len(path) : path[j] \in ColonOrHash

\* ":" in tail, for tail = urlsplit(u).path[len("/wiki/"):]
ColonInTail(u) == ColonBehindFirst(urlsplit(u).path)

\* if not u: continue
Absolute(u) == u # None

\* every member link is kept, namespaced or not
MemberOfAnyNamespace(a) ==
  /\ a.region = "mw-pages" /\ StartsWith(a.href, <<"/wiki/">>)
  /\ Absolute(abs_wiki(a.href))

\* if not u: continue; if ":" in tail: continue
NoNamespace(u) == u # None /\ ~ColonInTail(u)

\* #mw-pages a[href^='/wiki/'] whose title has no ':'
Member(a) ==
  /\ a.region = "mw-pages" /\ StartsWith(a.href, <<"/wiki/">>)
  /\ NoNamespace(abs_wiki(a.href))

\* #mw-subcategories a[href^='/wiki/Category:'] with "Nanjing" in its text
Subcategory(a) ==
  /\ a.region = "mw-subcategories" /\ StartsWith(a.href, <<"/wiki/", "Category:">>)
  /\ Absolute(abs_wiki(a.href))
  /\ Contains(a.text, "Nanjing")

\* #mw-pages a[href*='/w/index.php'][href*='title=Category:']
Pagination(a) ==
  /\ a.region = "mw-pages"
  /\ Contains(a.href, "/w/index.php")
  /\ ContainsSub(a.href, <<"title=", "Category:">>)
  /\ Absolute(canon_url(urljoin(<<"https", "://", "en.wikipedia.org">>, a.href)))

\* if u and is_topic_url(u)
InTopic(u) == u # None /\ is_topic_url(u)

\* a[href^='/wiki/'] anywhere in the page, kept if is_topic_url
ArticleLink(a) ==
  /\ StartsWith(a.href, <<"/wiki/">>)
  /\ InTopic(abs_wiki(a.href))

\* out.append((u, a.get_text(" ", strip=True)[:200]))
WikiItem(a) == <<abs_wiki(a.href), a.text>>

\* out.append((u, "cat-page"))
PageItem(a) ==
  <<canon_url(urljoin(<<"https", "://", "en.wikipedia.org">>, a.href)), <<"cat-page">> >>

\* the three loops of the category branch and the loop of the article branch,
\* each over the anchors in document order
Members(html) ==
  LET kept == SelectSeq(html, Member)
  IN [i \in 1..Len(kept) |-> WikiItem(kept[i])]

Subcategories(html) ==
  LET kept == SelectSeq(html, Subcategory)
  IN [i \in 1..Len(kept) |-> WikiItem(kept[i])]

Paginations(html) ==
  LET kept == SelectSeq(html, Pagination)
  IN [i \in 1..Len(kept) |-> PageItem(kept[i])]

ArticleLinks(html) ==
  LET kept == SelectSeq(html, ArticleLink)
  IN [i \in 1..Len(kept) |-> WikiItem(kept[i])]

extract_links(base_url, html) ==
  IF is_category(base_url)
    THEN Members(html) \o Subcategories(html) \o Paginations(html)
    ELSE ArticleLinks(html)

-----------------------------------------------------------------------------
(* The two places that put on the frontier, over urls as text: the seeding  *)
(* loop of crawl() and the link loop of the worker, run by one worker for   *)
(* which every fetch answers 200 with an html page                          *)

En == <<"https", "://", "en.wikipedia.org">>

\* the page of test_extract_links_article_page_with_interlanguage, and three
\* more links: one with a fragment, one to an edit page, one to a talk page
ArticleHtml ==
  << Anchor("body", <<"/wiki/", "Nanjing", "_", "Metro">>, <<"Metro">>, ""),
     Anchor("body", <<"/wiki/", "History", "_of_", "Nanjing">>, <<"History">>, ""),
     Anchor("body", <<"/wiki/", "Random", "_", "page">>, <<"Random">>, ""),
     Anchor("body", <<"/wiki/", "File:", "Image.jpg">>, <<"File">>, ""),
     Anchor("body", <<"https", "://", "zh.wikipedia.org", "/wiki/", "Nanjing">>,
            <<"Nanjing", " ", "zh">>, "zh"),
     Anchor("body", <<"https", "://", "en.wikipedia.org", "/wiki/", "Nanjing">>,
            <<"Nanjing", " ", "en">>, "en"),
     Anchor("body", <<"/wiki/", "Category:", "Monuments", "_in_", "Nanjing", "#", "top">>,
            <<"Monuments">>, ""),
     Anchor("body", <<"/wiki/", "Nanjing", "?", "action=edit">>, <<"edit">>, ""),
     Anchor("body", <<"/wiki/", "Talk:", "Nanjing">>, <<"Talk">>, "") >>

\* the page of test_extract_links_category_page, and one more member whose
\* title is out of the topic scope
CategoryHtml ==
  << Anchor("mw-pages", <<"/wiki/", "Nanjing", "_", "Wall">>, <<"Wall">>, ""),
     Anchor("mw-pages", <<"/wiki/", "Talk:", "Nanjing">>, <<"Talk", " ", "page">>, ""),
     Anchor("mw-pages", <<"/wiki/", "Category:", "Not", "_", "used">>,
            <<"Category", " ", "only">>, ""),
     Anchor("mw-pages", <<"/wiki/", "Zhonghua", "_", "Gate">>, <<"Gate">>, ""),
     Anchor("mw-subcategories", <<"/wiki/", "Category:", "Monuments", "_in_", "Nanjing">>,
            <<"Nanjing", " ", "Monuments">>, ""),
     Anchor("mw-subcategories", <<"/wiki/", "Category:", "Something", "_", "else">>,
            <<"Other">>, ""),
     Anchor("mw-pages", <<"/w/index.php", "?", "title=", "Category:", "Monuments",
                          "_in_", "Nanjing", "&", "page=2">>, <<"next">>, "") >>

\* a later page of the category listing: one member and the link to the page
\* after it
PagedHtml(next) ==
  << Anchor("mw-pages", <<"/wiki/", "Nanjing", "_", "Wall">>, <<"Wall">>, ""),
     Anchor("mw-pages", <<"/w/index.php", "?", "title=", "Category:", "Monuments",
                          "_in_", "Nanjing", "&", next>>, <<"next">>, "") >>

\* resp.content: the pages the web may answer with for a url
HtmlsAt(url) ==
  IF Contains(url, "page=2") THEN {PagedHtml("page=3")}
  ELSE IF Contains(url, "page=3") THEN {PagedHtml("page=4")}
  ELSE IF Contains(url, "Category:") THEN {CategoryHtml, ArticleHtml}
  ELSE IF url = En \o <<"/wiki/", "Nanjing">> THEN {ArticleHtml, CategoryHtml}
  ELSE {<< >>, ArticleHtml}

\* seeds of whitelist.yml: a url with a fragment and an edit url; a category
\* and a url with a query
SeedLists ==
  { << En \o <<"/wiki/", "Nanjing", "#", "History">>,
       En \o <<"/w/index.php", "?", "title=", "Nanjing", "&", "action=edit">> >>,
    << En \o <<"/wiki/", "Category:", "Monuments", "_in_", "Nanjing">>,
       En \o <<"/wiki/", "Nanjing", "?", "x=1">> >> }

\* include_patterns / exclude_patterns: each pattern is one piece, and
\* r.search(url) finds it when the url contains the piece
IncludeLists == { {}, {"en.wikipedia.org"}, {"/wiki/"} }

ExcludeLists == { {}, {"Wall"}, {"x=1"} }

\* every url passes
AllowedAlways(url, include_res, exclude_res) == TRUE

\* allowed_by_patterns(url, include_res, exclude_res)
AllowedByPatterns(url, include_res, exclude_res) ==
  IF include_res # {} /\ ~(\E r \in include_res : Contains(url, r)) THEN FALSE
  ELSE IF exclude_res # {} /\ (\E r \in exclude_res : Contains(url, r)) THEN FALSE
  ELSE TRUE

linkFrame ==
  <<stop_event, fetched, pages, fetch_log, links, pend, raw, meta, rp_cache,
    robots_gets, http_gets, wall, loc, main_pc, limiterVars, fileVars, urlVars>>

\* for s in seeds: su = canon_url(s); if su and allowed_by_patterns(su, ...):
\* frontier.put((su, 0)) -- one iteration; the workers start after the last
SeedPut ==
  /\ cur.phase = "seeding"
  /\ LET su == canon_url(cfg.seeds[cur.si])
     IN IF su # None /\ AllowedByPatterns(su, cfg.include_res, cfg.exclude_res)
          THEN /\ frontier' = Append(frontier, <<su, 0>>)
               /\ unfinished' = unfinished + 1
          ELSE UNCHANGED <<frontier, unfinished>>
  /\ cur' = [cur EXCEPT !.si = @ + 1,
                        !.phase = IF cur.si = Len(cfg.seeds) THEN "run" ELSE "seeding"]
  /\ UNCHANGED <<seen, cfg>>
  /\ UNCHANGED linkFrame

\* the gate is open for every depth
LinkGateAlwaysOpen(depth) == TRUE

\* if depth + 1 <= max_depth and not stop_event.is_set()
LinkGate(depth) == depth + 1 <= max_depth /\ ~stop_event

\* url, depth = frontier.get(); if url in seen: task_done; continue
Revisit ==
  /\ cur.phase = "run"
  /\ frontier # << >>
  /\ Head(frontier)[1] \in seen
  /\ frontier' = Tail(frontier)
  /\ unfinished' = unfinished - 1
  /\ UNCHANGED <<seen, cfg, cur>>
  /\ UNCHANGED linkFrame

\* for to_url, anchor in links: the puts, then task_done
PutLinks(url, depth, html, found, puts) ==
  /\ seen' = seen \cup {url}
  /\ frontier' = Tail(frontier) \o puts
  /\ unfinished' = unfinished - 1 + Len(puts)
  /\ cur' = [cur EXCEPT !.base = url, !.depth = depth, !.html = html,
                        !.out = found, !.called = LinkGate(depth)]

\* if allowed_by_patterns(to_url, ...) and to_url not in seen, after
\* seen.add(url)
Fresh(l, url) ==
  /\ AllowedByPatterns(l[1], cfg.include_res, cfg.exclude_res)
  /\ l[1] \notin seen \cup {url}

\* the links found are put at depth + 1, in their order
PutFresh(url, depth, html, found, fresh) ==
  PutLinks(url, depth, html, found,
           [i \in 1..Len(fresh) |-> <<fresh[i][1], depth + 1>>])

PutFound(url, depth, html, found) ==
  PutFresh(url, depth, html, found, SelectSeq(found, LAMBDA l : Fresh(l, url)))

\* one item from frontier.get() to task_done: seen.add(url), the page comes
\* back, and behind the gate every extracted link that is allowed and not in
\* seen is put at depth + 1
VisitItem(url, depth) ==
  /\ url \notin seen
  /\ \E html \in HtmlsAt(url) :
       PutFound(url, depth, html,
                IF LinkGate(depth) THEN extract_links(url, html) ELSE << >>)

Visit ==
  /\ cur.phase = "run"
  /\ frontier # << >>
  /\ VisitItem(Head(frontier)[1], Head(frontier)[2])
  /\ UNCHANGED cfg
  /\ UNCHANGED linkFrame

LinkInit ==
  /\ InitStore
  /\ InitProcess(<< >>, "idle")
  /\ InitLimiterIdle
  /\ names = << >> /\ inodes = << >> /\ wr = << >>
  /\ u_in = << >> /\ u_out = << >>
  /\ cfg \in [seeds : SeedLists, include_res : IncludeLists, exclude_res : ExcludeLists]
  /\ cur = [phase |-> "seeding", si |-> 1, base |-> << >>, depth |-> 0,
            html |-> << >>, out |-> << >>, called |-> FALSE]

LinkNext == SeedPut \/ Revisit \/ Visit

LinkSpec == LinkInit /\ [][LinkNext]_vars

-----------------------------------------------------------------------------
(* Properties of what is put on the frontier and of extract_links *)

\* the items a step puts: what the frontier holds after the step behind what
\* it kept (a worker step takes the head off first)
Put ==
  SubSeq(frontier', Len(frontier) - (IF cur.phase = "run" THEN 1 ELSE 0) + 1,
         Len(frontier'))

\* the texts a step's puts come from: the seed at hand, or the hrefs of the
\* page just fetched
Origins ==
  IF cur.phase = "seeding" THEN {cfg.seeds[cur.si]}
  ELSE {cur'.html[j].href : j \in DOMAIN cur'.html}

\* the pieces between the first "?" and the "#" behind it
QueryOf(s) ==
  LET h == IndexOf(s, "#")
      front == IF h = 0 THEN s ELSE SubSeq(s, 1, h - 1)
      q == IndexOf(front, "?")
  IN IF q = 0 THEN << >> ELSE SubSeq(front, q + 1, Len(front))

\* C15: every url put on the frontier, seed or discovered link (pagination
\* links included), is a url canon_url returned: not None, without fragment,
\* with the query of the text it came from, and not an edit-action url of a
\* wikipedia.org host.
FrontierCanonical ==
  [][\A i \in DOMAIN Put :
       LET u == Put[i][1]
       IN /\ u # None /\ u # TypeError
          /\ ~Contains(u, "#")
          /\ ~(u[3] \in WikipediaHosts /\ Contains(QueryOf(u), "action=edit"))
          /\ \E o \in Origins : QueryOf(o) = QueryOf(u)]_vars

\* seeding is over: the seed with a fragment is queued without it, the edit
\* seed is not queued
FrontierCanonicalWitness ==
  /\ cur.phase = "run" /\ seen = {}
  /\ Contains(cfg.seeds[1], "#") /\ Contains(cfg.seeds[2], "action=edit")
  /\ frontier = << <<En \o <<"/wiki/", "Nanjing">>, 0>> >>

\* C16: every url put on the frontier satisfies the pattern policy when it is
\* put: it contains an include pattern if there are any, and no exclude
\* pattern; with an empty include list every extracted link that matches no
\* exclude pattern (and is not in seen) is put.
FrontierAllowed ==
  [][/\ \A i \in DOMAIN Put :
          LET u == Put[i][1]
          IN /\ cfg.include_res # {} => \E r \in cfg.include_res : Contains(u, r)
             /\ \A r \in cfg.exclude_res : ~Contains(u, r)
     /\ cur.phase = "run" /\ cfg.include_res = {} /\ Head(frontier)[1] \notin seen =>
          \A j \in DOMAIN cur'.out :
            LET u == cur'.out[j][1]
            IN (\A r \in cfg.exclude_res : ~Contains(u, r)) /\ u \notin seen'
                 => \E i \in DOMAIN Put : Put[i][1] = u]_vars

\* with an include and an exclude list, a page gave a link that matches the
\* exclude pattern and one that was put
FrontierAllowedWitness ==
  /\ cfg.include_res # {} /\ cfg.exclude_res # {}
  /\ cur.phase = "run" /\ cur.called
  /\ \E j \in DOMAIN cur.out : \E r \in cfg.exclude_res : Contains(cur.out[j][1], r)
  /\ \E i \in DOMAIN frontier : frontier[i][2] = cur.depth + 1

\* the base url has the shape of a category page or of a page of its listing
CategoryShaped(base) ==
  \/ (Len(base) >= 5 /\ base[4] = "/wiki/" /\ base[5] = "Category:")
  \/ (Len(base) >= 7 /\ base[4] = "/w/index.php" /\ base[6] = "title="
        /\ base[7] = "Category:")

\* pieces that name a namespace
Namespaces == ColonOrHash \ {"://", "#"}

Range(q) == {q[i] : i \in DOMAIN q}

\* C17: on a category-shaped base url extract_links returns exactly: the
\* links in #mw-pages to /wiki/ titles without namespace, with their text;
\* the links in #mw-subcategories to /wiki/Category: titles whose text
\* contains "Nanjing", with their text; the listing links in #mw-pages
\* (/w/index.php with title=Category:), with the anchor "cat-page".  So no
\* unrelated subcategory, no Talk: or File: link and no namespaced member is
\* returned, and members are returned whether or not their title is in the
\* topic scope.
CategoryExtraction ==
  cur.phase = "run" /\ cur.called /\ CategoryShaped(cur.base) =>
    LET as == Range(cur.html)
        members == {a \in as : /\ a.region = "mw-pages" /\ a.href[1] = "/wiki/"
                               /\ \A j \in 2..Len(a.href) : a.href[j] \notin Namespaces}
        subcats == {a \in as : /\ a.region = "mw-subcategories"
                               /\ a.href[1] = "/wiki/" /\ a.href[2] = "Category:"
                               /\ Contains(a.text, "Nanjing")}
        listing == {a \in as : /\ a.region = "mw-pages" /\ a.href[1] = "/w/index.php"
                               /\ ContainsSub(a.href, <<"title=", "Category:">>)}
    IN /\ Range(cur.out) = {<<En \o a.href, a.text>> : a \in members \cup subcats}
                             \cup {<<En \o a.href, <<"cat-page">> >> : a \in listing}
       /\ \A l \in Range(cur.out) :
            /\ ~Contains(l[1], "Talk:") /\ ~Contains(l[1], "File:")
            /\ ~Contains(l[1], "Something") /\ ~Contains(l[1], "Not")

\* the category page of the test was extracted: both members (one of them
\* out of the topic scope), the Nanjing subcategory and the listing link
CategoryExtractionWitness ==
  /\ cur.phase = "run" /\ cur.called
  /\ cur.base = En \o <<"/wiki/", "Category:", "Monuments", "_in_", "Nanjing">>
  /\ cur.html = CategoryHtml
  /\ Len(cur.out) = 4
  /\ cur.out[2] = <<En \o <<"/wiki/", "Zhonghua", "_", "Gate">>, <<"Gate">> >>
  /\ cur.out[4][2] = <<"cat-page">>

\* C19: on an article page extract_links returns, for every anchor with an
\* hreflang attribute and an absolute Wikipedia url, that url with the anchor
\* text "interlanguage-<lang>".
InterlanguageReturned ==
  cur.phase = "run" /\ cur.called /\ ~CategoryShaped(cur.base) =>
    \A a \in Range(cur.html) :
      a.hreflang # "" /\ Len(a.href) >= 3 /\ a.href[2] = "://"
        /\ a.href[3] \in WikipediaHosts
      => \E l \in Range(cur.out) :
           l[1] = a.href /\ l[2] = <<"interlanguage-", a.hreflang>>

\* C20: a seed is put at depth 0, a discovered link at the depth of the page
\* it was found on plus one, and nothing is put deeper than max_depth,
\* whatever the kind of link (listing links of a category included).
DepthBound ==
  [][\A i \in DOMAIN Put :
       /\ cur.phase = "seeding" => Put[i][2] = 0
       /\ cur.phase = "run" => Put[i][2] = Head(frontier)[2] + 1
       /\ Put[i][2] <= max_depth]_vars

\* a page of a category listing was fetched at depth max_depth; it has a link
\* to the next page, which was not put
DepthBoundWitness ==
  /\ cur.phase = "run"
  /\ Contains(cur.base, "/w/index.php") /\ cur.depth = max_depth
  /\ \E a \in Range(cur.html) : a.href[1] = "/w/index.php"
  /\ ~cur.called /\ cur.out = << >>
  /\ \A i \in DOMAIN frontier : frontier[i][2] <= max_depth
-----------------------------------------------------------------------------
(* Properties of the crawl: stop flag, store rows and artifacts *)

\* C21: no step puts an item on the frontier while the stop flag is set.
NoEnqueueAfterStop ==
  [][stop_event => Len(frontier') <= Len(frontier)]_vars

RowsOf(pid) == {i \in DOMAIN fetch_log : fetch_log[i].page_id = pid}

Newest(pid) == CHOOSE i \in RowsOf(pid) : \A j \in RowsOf(pid) : j <= i

\* a worker is between the seen check and task_done with the url of page pid
InFlight(pid) ==
  \E w \in Workers : loc[w].pc \in Processing /\ loc[w].url = pages[pid].url

\* C22: once no worker is handling a page any more, its last_status is the
\* status of the newest fetch_log row of that page, the sentinel -1 included.
LastStatusIsNewest ==
  \A pid \in DOMAIN pages :
    (RowsOf(pid) # {} /\ ~InFlight(pid))
      => pages[pid].last_status = fetch_log[Newest(pid)].status

\* the fetch_log rows this run wrote for the page of url u
RunRows(u) ==
  {i \in DOMAIN fetch_log :
     /\ fetch_log[i].page_id = PageIdOf(u)
     /\ fetch_log[i] \notin Range(PriorLog)}

UrlInFlight(u) == \E w \in Workers : loc[w].pc \in Processing /\ loc[w].url = u

\* C23: once no worker is handling a url any more, the run has written as
\* many fetch_log rows for its page as GET requests were sent for it.
OneRowPerGet ==
  \A u \in Urls : ~UrlInFlight(u) => Cardinality(RunRows(u)) = http_gets[u]

\* the first position of to_url in the list ls of <<to_url, anchor>> pairs
FirstOf(ls, to_url) ==
  CHOOSE k \in DOMAIN ls :
    ls[k][1] = to_url /\ \A j \in DOMAIN ls : ls[j][1] = to_url => k <= j

\* every link of ls is a committed row of page pid in the table rows, under
\* the anchor of its first occurrence, and no key has two rows
AllStored(rows, pid, ls) ==
  /\ \A k \in DOMAIN ls :
       \E r \in rows : /\ r.from_page = pid
                       /\ r.to_url = ls[k][1]
                       /\ r.anchor = ls[FirstOf(ls, ls[k][1])][2]
  /\ \A r1, r2 \in rows :
       (r1.from_page = r2.from_page /\ r1.to_url = r2.to_url) => r1 = r2

\* C24: when a worker completes the 200 path of a page, every link the
\* extractor yields for that page (the list it returned when it was called,
\* the page's links when the gate kept it from being called) is a row of the
\* links table, one per (from_page, to_url), under the first anchor.
ObservedGraphStored ==
  [][\A w \in Workers :
       (loc[w].pc = "commit" /\ loc'[w].pc = "get")
         => AllStored(links', loc[w].page_id,
                      IF loc[w].i >= 1 THEN loc[w].links
                                       ELSE LinksOf(loc[w].url))]_vars

\* C25: a 200 path that has stored validators for its page goes on to call
\* extract_links on it: no worker leaves the gate of a page whose etag is
\* stored without the extractor having been called (i is set to 1 by the call).
ValidatorsOnlyWithExtraction ==
  [][\A w \in Workers :
       (loc[w].pc = "gate" /\ Moves(w) /\ pages[loc[w].page_id].etag # NoVal)
         => loc'[w].i = 1]_vars

\* C26: in every state (each is a state a crash can leave behind), when a
\* page has both its raw file and its sidecar, the sidecar's content_hash is
\* the hash of the bytes in the raw file.
ArtifactPairConsistent ==
  \A p \in PageIds :
    (raw[p] # NoVal /\ meta[p] # NoVal) => meta[p] = Md5(raw[p])

\* C27: a worker leaves its loop only in a state where the frontier is empty
\* and no worker holds an item (every put has had its task_done).
ExitOnlyWhenIdle ==
  [][\A w \in Workers :
       (loc[w].pc # "exited" /\ loc'[w].pc = "exited")
         => /\ frontier = << >>
            /\ unfinished = 0
            /\ \A v \in Workers : loc[v].pc \in {"get", "exited"}]_vars

Holding(w) == loc[w].pc \notin {"get", "exited"}

Holders == {w \in Workers : Holding(w)}

\* C28: every dequeued item gets exactly one task_done: the step by which a
\* worker returns to frontier.get from any point of the loop body takes one
\* off the unfinished count and no other step of that worker does, so the
\* puts not yet marked done are the queued items plus the items workers hold,
\* and with no item held the task_done calls equal the gets.
TaskAccounting ==
  /\ [](unfinished = Len(frontier) + Cardinality(Holders))
  /\ [][\A w \in Workers :
          (Holding(w) /\ Moves(w))
            => IF loc'[w].pc = "get"
                 THEN unfinished' = unfinished - 1 /\ frontier' = frontier
                 ELSE unfinished' - unfinished = Len(frontier') - Len(frontier)]_vars
  /\ [][\A w \in Workers :
          (~Holding(w) /\ Moves(w)) => unfinished' = unfinished]_vars

\* a finished run in which items ended as already seen or dropped at the stop
\* check, by robots disallow, in the exception handler and on the 200 path
TaskAccountingWitness ==
  /\ main_pc = "done"
  /\ Holders = {}
  /\ unfinished = 0
  /\ 3 \in seen /\ ~UrlHasRow(3)
  /\ \E i, j \in DOMAIN fetch_log :
       fetch_log[i].status = -1 /\ fetch_log[j].status = 200 /\ fetch_log[j].fetched_at >= 3
  /\ \E r \in links : r.to_url = 2

\* the rows this run has written on a 200 path (a 200 answer that is not
\* HTML is logged with the error column set)
Run200Rows ==
  {i \in DOMAIN fetch_log :
     /\ fetch_log[i].status = 200 /\ fetch_log[i].error = NoErr
     /\ fetch_log[i] \notin Range(PriorLog)}

\* workers that have logged their 200 and not yet passed the fetch_lock section
BeforeCount == {w \in Workers : loc[w].pc \in {"gate", "loop", "count"}}

\* C29: the quota counter never exceeds max_pages + NumWorkers - 1; it is the
\* number of 200 paths that have passed the fetch_lock section (every logged
\* 200 is counted once, none is lost); the stop flag is set exactly when the
\* counter has reached max_pages and is never cleared.
QuotaOvershootBound ==
  /\ [](fetched <= max_pages + NumWorkers - 1)
  /\ [](fetched = Cardinality(Run200Rows) - Cardinality(BeforeCount))
  /\ [](stop_event <=> fetched >= max_pages)
  /\ [][stop_event => stop_event']_vars
  /\ [][fetched' \in {fetched, fetched + 1}]_vars

\* a finished run in which the counter reached max_pages + NumWorkers - 1
QuotaOvershootWitness ==
  /\ main_pc = "done"
  /\ stop_event
  /\ fetched = max_pages + NumWorkers - 1
  /\ Cardinality(Run200Rows) = fetched

\* a configuration whose seeds list another page before the page listed twice
AttributionSeeds == <<2, 1, 1>>

AttributionItems ==
  SelectSeq([i \in 1..Len(AttributionSeeds) |-> <<AttributionSeeds[i], 0>>],
            LAMBDA it : allowed_by_patterns(it[1]))

AttributionInit ==
  /\ InitStore /\ InitProcess(AttributionItems, "get")
  /\ InitLimiterIdle /\ InitSideIdle

AttributionSpec == AttributionInit /\ [][Next]_vars

\* C30: every row the exception handler appends carries the page id of the
\* url whose handling raised.
ErrorRowAttributed ==
  [][\A w \in Workers :
       (loc[w].pc = "except" /\ Moves(w) /\ fetch_log' # fetch_log)
         => pages[fetch_log'[Len(fetch_log')].page_id].url = loc[w].url]_vars

====
